---- MODULE Spec2Model ----
(***************************************************************************)
(* Model of trim-branches (src/index.js): the BranchPruner class, one run  *)
(* of BranchPruner.run() against the git collaborator (simple-git), and    *)
(* the pure helper getRelativeDate.                                        *)
(*                                                                         *)
(* JavaScript strings that the code inspects (refs, branch names) are      *)
(* sequences of one-character strings, so includes / endsWith / replace /  *)
(* trim are computed character by character as String.prototype does.      *)
(* Strings that are only produced (relative dates) are TLA+ strings.       *)
(***************************************************************************)
EXTENDS Integers, Sequences, FiniteSets, TLC

VARIABLES
    mainBranch,     \* this.mainBranch
    dryRun,         \* this.dryRun
    force,          \* this.force
    keepDevelop,    \* this.keepDevelop
    pc,             \* position of run(): the method it is about to await
    exitCode,       \* "running", or the process exit code "0" / "1"
    result,         \* getMergedBranches: result.all of the --merged query
    branches,       \* run: const branches = await this.getMergedBranches()
    i,              \* number of completed iterations of the current for..of loop
    calls,          \* every call made on the git / inquirer collaborators, in order
    displayCalled,  \* displayBranches was entered (its header line was printed)
    displayed,      \* the entries printed by displayBranches, in order
    deletedCount,   \* deleteBranches: let deletedCount
    failedCount,    \* deleteBranches: let failedCount
    now,            \* getRelativeDate: new Date(), in seconds
    dateString,     \* getRelativeDate: its argument
    relativeDate    \* getRelativeDate: its return value ("" before the call)

config == <<mainBranch, dryRun, force, keepDevelop>>
runVars == <<pc, exitCode, result, branches, i, calls, displayCalled, displayed,
             deletedCount, failedCount>>
dateVars == <<now, dateString, relativeDate>>
vars == <<config, runVars, dateVars>>

(***************************************************************************)
(* Bounds of the model.                                                    *)
(***************************************************************************)
\* longest listing the git collaborator returns
MaxListing == 4
\* oldest commit formatted by getRelativeDate, in days before now
MaxDays == 740
\* furthest commit date ahead of the local clock, in days
MaxFutureDays == 2

(***************************************************************************)
(* String literals of the source, as character sequences.                  *)
(***************************************************************************)
ORIGIN == <<"o", "r", "i", "g", "i", "n", "/">>
ARROW == <<" ", "-", ">", " ">>
MAIN == <<"m", "a", "i", "n">>
MASTER == <<"m", "a", "s", "t", "e", "r">>
DEVELOP == <<"d", "e", "v", "e", "l", "o", "p">>
HEAD == <<"H", "E", "A", "D">>
\* names of ordinary branches living on the remote
FEATURE == <<"f", "i", "x">>
BACKUP == <<"b", "/">> \o ORIGIN \o MAIN

(***************************************************************************)
(* String.prototype and Array.prototype functions the code uses.           *)
(***************************************************************************)
\* s.includes(sub)
Includes(s, sub) ==
    \E k \in 1..(Len(s) - Len(sub) + 1) : SubSeq(s, k, k + Len(sub) - 1) = sub

\* s.endsWith(suffix)
EndsWith(s, suffix) ==
    /\ Len(s) >= Len(suffix)
    /\ SubSeq(s, Len(s) - Len(suffix) + 1, Len(s)) = suffix

\* s.indexOf(sub) + 1, 0 when absent
IndexOf(s, sub) ==
    IF Includes(s, sub)
    THEN CHOOSE k \in 1..(Len(s) - Len(sub) + 1) :
            /\ SubSeq(s, k, k + Len(sub) - 1) = sub
            /\ \A j \in 1..(k - 1) : SubSeq(s, j, j + Len(sub) - 1) # sub
    ELSE 0

\* s.replace(pattern, replacement) with a string pattern: the first occurrence only
Replace(s, pattern, replacement) ==
    LET k == IndexOf(s, pattern)
    IN  IF k = 0
        THEN s
        ELSE SubSeq(s, 1, k - 1) \o replacement \o SubSeq(s, k + Len(pattern), Len(s))

RECURSIVE TrimStart(_)
TrimStart(s) == IF s # <<>> /\ Head(s) = " " THEN TrimStart(Tail(s)) ELSE s

RECURSIVE TrimEnd(_)
TrimEnd(s) ==
    IF s # <<>> /\ s[Len(s)] = " " THEN TrimEnd(SubSeq(s, 1, Len(s) - 1)) ELSE s

\* s.trim()
Trim(s) == TrimEnd(TrimStart(s))

\* array.includes(x)
ArrayIncludes(array, x) == \E k \in 1..Len(array) : array[k] = x

(***************************************************************************)
(* What the git collaborator can return.                                   *)
(***************************************************************************)
\* the symbolic ref line of a remote, "origin/HEAD -> origin/main"
SymbolicRef == ORIGIN \o HEAD \o ARROW \o ORIGIN \o MAIN

\* refs of the remote-tracking branches a listing can hold
Refs ==
    { SymbolicRef,
      ORIGIN \o HEAD,
      ORIGIN \o MAIN,
      ORIGIN \o MASTER,
      ORIGIN \o DEVELOP,
      ORIGIN \o FEATURE,
      ORIGIN \o BACKUP }

\* a listing: refs in the order git prints them, each remote branch once
Listings ==
    UNION { { l \in [1..n -> Refs] : \A a, b \in 1..n : a # b => l[a] # l[b] }
            : n \in 0..MaxListing }

(***************************************************************************)
(* JavaScript numbers: an integer, or NaN.  Times are counted in seconds   *)
(* (the code's milliseconds with the factor 1000 divided out), so that     *)
(* two years of seconds stay within TLC's integers.                        *)
(***************************************************************************)
Num(v) == [nan |-> FALSE, v |-> v]
NaN == [nan |-> TRUE, v |-> 0]

\* a - b
JsSub(a, b) == IF a.nan \/ b.nan THEN NaN ELSE Num(a.v - b.v)

\* Math.floor(a / n), n a positive literal
JsFloorDiv(a, n) == IF a.nan THEN NaN ELSE Num(a.v \div n)

\* a === n, n a literal: false for NaN
JsEq(a, n) == ~a.nan /\ a.v = n

\* a < n, n a literal: false for NaN
JsLt(a, n) == ~a.nan /\ a.v < n

\* `${a}`
JsStr(a) == IF a.nan THEN "NaN" ELSE ToString(a.v)

\* 1000 * 60 * 60 * 24 milliseconds, in seconds
DaySeconds == 60 * 60 * 24

\* a date string: its text and the time value new Date(text) has
Timestamp(t) == [text |-> "iso", time |-> Num(t)]
\* the sentinel getBranchInfo substitutes; new Date('unknown') is an Invalid Date
UnknownDate == [text |-> "unknown", time |-> NaN]
\* any other text Date cannot parse
GarbageDate == [text |-> "garbage", time |-> NaN]

\* new Date(dateString), as the number the subtraction converts it to
NewDate(ds) == ds.time

\* getRelativeDate(dateString) at clock reading nowSec.  Nothing in the try
\* block throws (new Date of an unparseable string is an Invalid Date, not an
\* exception), so the catch that returns 'unknown' is never entered.
getRelativeDate(ds, nowSec) ==
    LET date == NewDate(ds)
        diffMs == JsSub(Num(nowSec), date)
        diffDays == JsFloorDiv(diffMs, DaySeconds)
    IN  IF JsEq(diffDays, 0) THEN "today"
        ELSE IF JsEq(diffDays, 1) THEN "yesterday"
        ELSE IF JsLt(diffDays, 7) THEN JsStr(diffDays) \o " days ago"
        ELSE IF JsLt(diffDays, 30) THEN JsStr(JsFloorDiv(diffDays, 7)) \o " weeks ago"
        ELSE IF JsLt(diffDays, 365) THEN JsStr(JsFloorDiv(diffDays, 30)) \o " months ago"
        ELSE JsStr(JsFloorDiv(diffDays, 365)) \o " years ago"

(***************************************************************************)
(* getMergedBranches, the part after the query has returned.               *)
(***************************************************************************)
\* .filter(branch => !branch.includes(' -> '))
NotSymbolic(branch) == ~Includes(branch, ARROW)

\* .filter(branch => !branch.endsWith(`origin/${this.mainBranch}`))
NotMainRef(branch) == ~EndsWith(branch, ORIGIN \o mainBranch)

\* .map(branch => branch.replace('origin/', '').trim())
StripRemote(branch) == Trim(Replace(branch, ORIGIN, <<>>))

\* let mergedBranches = result.all.filter(..).filter(..).map(..)
MergedBranches(all) ==
    LET kept == SelectSeq(SelectSeq(all, NotSymbolic), NotMainRef)
    IN  [k \in 1..Len(kept) |-> StripRemote(kept[k])]

\* Skipped without its last condition: HEAD is pushed like any other branch
SkippedExceptHead(branch) ==
    \/ branch = mainBranch
    \/ (keepDevelop /\ branch = DEVELOP)

\* the three `continue` conditions of the for loop
Skipped(branch) ==
    \/ branch = mainBranch
    \/ (keepDevelop /\ branch = DEVELOP)
    \/ branch = HEAD

\* filteredBranches: the branches the loop pushes, in order
FilteredBranches(all) ==
    SelectSeq(MergedBranches(all), LAMBDA branch : ~Skipped(branch))

(***************************************************************************)
(* One run of the CLI.                                                     *)
(***************************************************************************)
\* what commander hands to the constructor; <<>> is an absent --main
Options ==
    [mainBranch : {<<>>, MASTER}, dryRun : BOOLEAN, force : BOOLEAN,
     keepDevelop : BOOLEAN]

\* the clock reading of this run, in seconds
NowSec == DaySeconds * 20000

\* constructor(options)
Constructed(options) ==
    /\ mainBranch = IF options.mainBranch = <<>> THEN MAIN ELSE options.mainBranch
    /\ dryRun = options.dryRun
    /\ force = options.force
    /\ keepDevelop = (options.keepDevelop # FALSE)

Init ==
    /\ \E options \in Options : Constructed(options)
    /\ pc = "checkGitRepository"
    /\ exitCode = "running"
    /\ result = <<>>
    /\ branches = <<>>
    /\ i = 0
    /\ calls = <<>>
    /\ displayCalled = FALSE
    /\ displayed = <<>>
    /\ deletedCount = 0
    /\ failedCount = 0
    /\ now = NowSec
    /\ dateString = UnknownDate
    /\ relativeDate = ""

\* one call on a collaborator: the operation, its argument, how it ended
Call(op, arg, res) == [op |-> op, arg |-> arg, res |-> res]

\* process.exit(code), or run() returning (the process then ends with code 0)
Exit(code) ==
    /\ pc' = "exited"
    /\ exitCode' = code

\* await this.checkGitRepository(): the value checkIsRepo resolves to is not
\* read; only a rejection reaches the catch block and process.exit(1)
CheckGitRepository ==
    /\ pc = "checkGitRepository"
    /\ \E r \in {"true", "false", "throws"} :
          /\ calls' = Append(calls, Call("checkIsRepo", <<>>, r))
          /\ IF r = "throws"
             THEN Exit("1")
             ELSE pc' = "fetchLatest" /\ UNCHANGED exitCode
    /\ UNCHANGED <<config, result, branches, i, displayCalled, displayed,
                   deletedCount, failedCount, dateVars>>

\* await this.fetchLatest(): a failed fetch is rethrown to run's catch
FetchLatest ==
    /\ pc = "fetchLatest"
    /\ \E r \in {"ok", "throws"} :
          /\ calls' = Append(calls, Call("fetch --prune", ORIGIN, r))
          /\ IF r = "throws"
             THEN Exit("1")
             ELSE pc' = "checkMainBranch" /\ UNCHANGED exitCode
    /\ UNCHANGED <<config, result, branches, i, displayCalled, displayed,
                   deletedCount, failedCount, dateVars>>

\* CheckMainBranch without the process.exit(1) of a missing main branch
CheckMainBranchNoExit ==
    /\ pc = "checkMainBranch"
    /\ \/ /\ calls' = Append(calls, Call("branch -r", <<>>, "throws"))
          /\ Exit("1")
       \/ \E all \in Listings :
             /\ calls' = Append(calls, Call("branch -r", <<>>,
                    IF ArrayIncludes(all, ORIGIN \o mainBranch)
                    THEN "main listed" ELSE "main absent"))
             /\ pc' = "getMergedBranches"
             /\ UNCHANGED exitCode
    /\ UNCHANGED <<config, result, branches, i, displayCalled, displayed,
                   deletedCount, failedCount, dateVars>>

\* await this.checkMainBranch()
CheckMainBranch ==
    /\ pc = "checkMainBranch"
    /\ \/ /\ calls' = Append(calls, Call("branch -r", <<>>, "throws"))
          /\ Exit("1")
       \/ \E all \in Listings :
             LET mainBranchRef == ORIGIN \o mainBranch
             IN  IF ~ArrayIncludes(all, mainBranchRef)
                 THEN /\ calls' = Append(calls, Call("branch -r", <<>>, "main absent"))
                      /\ Exit("1")
                 ELSE /\ calls' = Append(calls, Call("branch -r", <<>>, "main listed"))
                      /\ pc' = "getMergedBranches"
                      /\ UNCHANGED exitCode
    /\ UNCHANGED <<config, result, branches, i, displayCalled, displayed,
                   deletedCount, failedCount, dateVars>>

\* const branches = await this.getMergedBranches().  result stays readable
\* until run has looked at the returned list.
GetMergedBranches ==
    /\ pc = "getMergedBranches"
    /\ \/ /\ calls' = Append(calls, Call("branch -r --merged", ORIGIN \o mainBranch, "throws"))
          /\ Exit("1")
          /\ UNCHANGED <<result, branches>>
       \/ \E all \in Listings :
             /\ calls' = Append(calls, Call("branch -r --merged", ORIGIN \o mainBranch, "ok"))
             /\ result' = all
             /\ branches' = FilteredBranches(all)
             /\ pc' = "checkEmpty"
             /\ UNCHANGED exitCode
    /\ UNCHANGED <<config, i, displayCalled, displayed,
                   deletedCount, failedCount, dateVars>>

\* CheckEmpty without the early return of an empty list
CheckEmptyNoReturn ==
    /\ pc = "checkEmpty"
    /\ result' = <<>>
    /\ pc' = "displayBranches"
    /\ displayCalled' = TRUE
    /\ UNCHANGED <<config, exitCode, branches, i, calls, displayed,
                   deletedCount, failedCount, dateVars>>

\* if (branches.length === 0) return; otherwise displayBranches is entered
CheckEmpty ==
    /\ pc = "checkEmpty"
    /\ result' = <<>>
    /\ IF Len(branches) = 0
       THEN Exit("0") /\ UNCHANGED displayCalled
       ELSE /\ pc' = "displayBranches"
            /\ displayCalled' = TRUE
            /\ UNCHANGED exitCode
    /\ UNCHANGED <<config, branches, i, calls, displayed,
                   deletedCount, failedCount, dateVars>>

\* getBranchInfo(branch).date for each way git.log can end.  The hash, message
\* and author are printed as returned and are left out.
InfoDate(r) ==
    IF r = "latest" THEN Timestamp(now - 3 * DaySeconds) ELSE UnknownDate

\* one iteration of the for loop of displayBranches
DisplayBranch ==
    /\ pc = "displayBranches"
    /\ i < Len(branches)
    /\ \E r \in {"latest", "empty", "throws"} :
          LET branch == branches[i + 1]
              date == InfoDate(r)
          IN  /\ calls' = Append(calls, Call("log", ORIGIN \o branch, r))
              /\ displayed' = Append(displayed,
                     [branch |-> branch, date |-> date.text,
                      relativeDate |-> getRelativeDate(date, now)])
    /\ i' = i + 1
    /\ UNCHANGED <<config, pc, exitCode, result, branches, displayCalled,
                   deletedCount, failedCount, dateVars>>

\* CheckDryRun without the return of a dry run
CheckDryRunIgnored ==
    /\ pc = "displayBranches"
    /\ i = Len(branches)
    /\ i' = 0
    /\ pc' = "confirmDeletion"
    /\ UNCHANGED <<config, exitCode, result, branches, calls, displayCalled,
                   displayed, deletedCount, failedCount, dateVars>>

\* displayBranches returns; if (this.dryRun) return
CheckDryRun ==
    /\ pc = "displayBranches"
    /\ i = Len(branches)
    /\ i' = 0
    /\ IF dryRun
       THEN Exit("0")
       ELSE pc' = "confirmDeletion" /\ UNCHANGED exitCode
    /\ UNCHANGED <<config, result, branches, calls, displayCalled, displayed,
                   deletedCount, failedCount, dateVars>>

\* ConfirmDeletion without the return of a denied confirmation
ConfirmDeletionAnswerIgnored ==
    /\ pc = "confirmDeletion"
    /\ IF force
       THEN /\ pc' = "deleteBranches"
            /\ UNCHANGED <<exitCode, calls>>
       ELSE \E answer \in {"yes", "no", "throws"} :
               /\ calls' = Append(calls, Call("prompt", <<>>, answer))
               /\ IF answer = "throws"
                  THEN Exit("1")
                  ELSE pc' = "deleteBranches" /\ UNCHANGED exitCode
    /\ UNCHANGED <<config, result, branches, i, displayCalled, displayed,
                   deletedCount, failedCount, dateVars>>

\* const confirmed = await this.confirmDeletion(branches); if (!confirmed) return
ConfirmDeletion ==
    /\ pc = "confirmDeletion"
    /\ IF force
       THEN /\ pc' = "deleteBranches"
            /\ UNCHANGED <<exitCode, calls>>
       ELSE \E answer \in {"yes", "no", "throws"} :
               /\ calls' = Append(calls, Call("prompt", <<>>, answer))
               /\ IF answer = "yes"
                  THEN pc' = "deleteBranches" /\ UNCHANGED exitCode
                  ELSE IF answer = "no" THEN Exit("0") ELSE Exit("1")
    /\ UNCHANGED <<config, result, branches, i, displayCalled, displayed,
                   deletedCount, failedCount, dateVars>>

\* DeleteBranch without the try / catch: a failed push reaches run's catch
DeleteBranchFailFast ==
    /\ pc = "deleteBranches"
    /\ i < Len(branches)
    /\ \E r \in {"ok", "throws"} :
          /\ calls' = Append(calls, Call("push --delete", branches[i + 1], r))
          /\ IF r = "ok"
             THEN /\ deletedCount' = deletedCount + 1
                  /\ UNCHANGED <<pc, exitCode>>
             ELSE /\ Exit("1")
                  /\ UNCHANGED deletedCount
    /\ i' = i + 1
    /\ UNCHANGED <<config, result, branches, displayCalled, displayed,
                   failedCount, dateVars>>

\* one iteration of the for loop of deleteBranches
DeleteBranch ==
    /\ pc = "deleteBranches"
    /\ i < Len(branches)
    /\ \E r \in {"ok", "throws"} :
          /\ calls' = Append(calls, Call("push --delete", branches[i + 1], r))
          /\ IF r = "ok"
             THEN deletedCount' = deletedCount + 1 /\ UNCHANGED failedCount
             ELSE failedCount' = failedCount + 1 /\ UNCHANGED deletedCount
    /\ i' = i + 1
    /\ UNCHANGED <<config, pc, exitCode, result, branches, displayCalled,
                   displayed, dateVars>>

\* deleteBranches returns; await this.cleanupLocal(), whose failure is a warning
CleanupLocal ==
    /\ pc = "deleteBranches"
    /\ i = Len(branches)
    /\ \E r \in {"ok", "throws"} :
          calls' = Append(calls, Call("remote prune", ORIGIN, r))
    /\ pc' = "getRemainingBranchCount"
    /\ UNCHANGED <<config, exitCode, result, branches, i, displayCalled,
                   displayed, deletedCount, failedCount, dateVars>>

\* const remainingCount = await this.getRemainingBranchCount(): a count, or
\* 'unknown' when the listing fails; either is printed in the summary, and
\* run returns
GetRemainingBranchCount ==
    /\ pc = "getRemainingBranchCount"
    /\ \E r \in {"ok", "throws"} :
          calls' = Append(calls, Call("branch -r", <<>>, r))
    /\ Exit("0")
    /\ UNCHANGED <<config, result, branches, i, displayCalled, displayed,
                   deletedCount, failedCount, dateVars>>

Next ==
    \/ CheckGitRepository
    \/ FetchLatest
    \/ CheckMainBranch
    \/ GetMergedBranches
    \/ CheckEmpty
    \/ DisplayBranch
    \/ CheckDryRun
    \/ ConfirmDeletion
    \/ DeleteBranch
    \/ CleanupLocal
    \/ GetRemainingBranchCount

Spec == Init /\ [][Next]_vars

(***************************************************************************)
(* getRelativeDate on its own: every commit date within the bounds, at the *)
(* start, one second into and at the last second of each day, and the      *)
(* texts Date cannot parse.                                                *)
(***************************************************************************)
DateStrings ==
    { Timestamp(NowSec - d * DaySeconds - s) :
        d \in (0 - MaxFutureDays)..MaxDays, s \in {0, 1, DaySeconds - 1} }
    \cup {UnknownDate, GarbageDate}

InitDate ==
    /\ Constructed([mainBranch |-> <<>>, dryRun |-> FALSE, force |-> FALSE,
                    keepDevelop |-> TRUE])
    /\ pc = "idle"
    /\ exitCode = "running"
    /\ result = <<>>
    /\ branches = <<>>
    /\ i = 0
    /\ calls = <<>>
    /\ displayCalled = FALSE
    /\ displayed = <<>>
    /\ deletedCount = 0
    /\ failedCount = 0
    /\ now = NowSec
    /\ dateString \in DateStrings
    /\ relativeDate = ""

\* const relativeDate = this.getRelativeDate(info.date)
FormatDate ==
    /\ relativeDate = ""
    /\ relativeDate' = getRelativeDate(dateString, now)
    /\ UNCHANGED <<config, runVars, now, dateString>>

NextDate == FormatDate

SpecDate == InitDate /\ [][NextDate]_vars

(***************************************************************************)
(* Properties.                                                             *)
(***************************************************************************)
\* the calls of one operation, in the order they were made
CallsOf(op) == SelectSeq(calls, LAMBDA c : c.op = op)

\* some call of the operation was made
Called(op) == \E k \in 1..Len(calls) : calls[k].op = op

\* the --merged query has returned a listing
MergedComputed ==
    \E k \in 1..Len(calls) :
        calls[k].op = "branch -r --merged" /\ calls[k].res = "ok"

\* the names that must never be deleted
ProtectedNames ==
    {mainBranch, HEAD} \cup (IF keepDevelop THEN {DEVELOP} ELSE {})

\* C1: the candidate list never holds the main branch, "HEAD", or "develop"
\* while keepDevelop is true, and no remote delete is issued for such a name.
C1_ProtectedNeverCandidates ==
    /\ \A k \in 1..Len(branches) : branches[k] \notin ProtectedNames
    /\ \A k \in 1..Len(calls) :
          calls[k].op = "push --delete" => calls[k].arg \notin ProtectedNames

\* the query listed the main branch, HEAD and develop beside an ordinary
\* branch, develop is kept, and the filter has produced the candidates
C1_Witness ==
    /\ pc = "checkEmpty"
    /\ keepDevelop
    /\ ArrayIncludes(result, ORIGIN \o mainBranch)
    /\ ArrayIncludes(result, ORIGIN \o HEAD)
    /\ ArrayIncludes(result, ORIGIN \o DEVELOP)
    /\ Len(branches) = 1

\* displayBranches has printed every candidate, in order
DisplayedAll ==
    /\ displayCalled
    /\ Len(displayed) = Len(branches)
    /\ \A k \in 1..Len(branches) : displayed[k].branch = branches[k]

\* C2: in a dry run no prompt, remote delete or local prune is ever made,
\* and a dry run with at least one candidate ends with exit code 0 once all
\* candidates are displayed, whatever force is.
C2_DryRunShortCircuit ==
    dryRun =>
        /\ ~Called("prompt")
        /\ ~Called("push --delete")
        /\ ~Called("remote prune")
        /\ (branches # <<>> /\ pc = "exited") => (exitCode = "0" /\ DisplayedAll)
        /\ (branches # <<>> /\ pc # "exited") => pc \in {"checkEmpty", "displayBranches"}

\* a forced dry run over two or more candidates has ended
C2_Witness ==
    /\ dryRun
    /\ force
    /\ Len(branches) >= 2
    /\ pc = "exited"

\* C3: a remote delete is made only when force is true or after the prompt
\* was answered yes; without force, a "no" answer means no delete, no prune
\* and exit code 0.
C3_ConfirmationGate ==
    /\ \A k \in 1..Len(calls) :
          calls[k].op = "push --delete" =>
              \/ force
              \/ \E j \in 1..(k - 1) : calls[j].op = "prompt" /\ calls[j].res = "yes"
    /\ (~force /\ \E j \in 1..Len(calls) : calls[j].op = "prompt" /\ calls[j].res = "no")
          => /\ ~Called("push --delete")
             /\ ~Called("remote prune")
             /\ pc = "exited"
             /\ exitCode = "0"

\* the prompt over a non-empty candidate list was answered no
C3_Witness ==
    /\ ~force
    /\ branches # <<>>
    /\ \E j \in 1..Len(calls) : calls[j].op = "prompt" /\ calls[j].res = "no"

\* how many of the delete attempts ended this way
DeleteResults(res) ==
    Len(SelectSeq(CallsOf("push --delete"), LAMBDA c : c.res = res))

\* C4: the delete attempts are the candidates, one attempt each and in list
\* order; a failed attempt neither stops the loop nor fails the run; the two
\* counters count the successful and the failed attempts and add up to the
\* number of candidates when the phase is over.
C4_DeletionPhase ==
    LET attempts == CallsOf("push --delete")
    IN  /\ Len(attempts) <= Len(branches)
        /\ \A k \in 1..Len(attempts) : attempts[k].arg = branches[k]
        /\ deletedCount = DeleteResults("ok")
        /\ failedCount = DeleteResults("throws")
        /\ pc = "deleteBranches" => Len(attempts) = i
        /\ (Len(attempts) > 0 /\ pc # "deleteBranches") =>
              /\ Len(attempts) = Len(branches)
              /\ deletedCount + failedCount = Len(branches)
              /\ Called("remote prune")
              /\ exitCode # "1"

\* three candidates, the second delete failed, the other two succeeded, and
\* the run is over
C4_Witness ==
    /\ pc = "exited"
    /\ Len(branches) = 3
    /\ Len(CallsOf("push --delete")) = 3
    /\ CallsOf("push --delete")[1].res = "ok"
    /\ CallsOf("push --delete")[2].res = "throws"
    /\ CallsOf("push --delete")[3].res = "ok"
    /\ deletedCount = 2
    /\ failedCount = 1

\* C5: when the repository check reports no repository, by resolving to
\* false or by rejecting, the run aborts with a non-zero exit code and makes
\* no further call.
C5_NoRepositoryAborts ==
    (calls # <<>> /\ calls[1].res \in {"false", "throws"}) =>
        /\ Len(calls) = 1
        /\ pc = "exited"
        /\ exitCode = "1"

\* C6: when origin/<mainBranch> is not in the remote listing, the run exits
\* non-zero right there: the fetch has completed before, and no merged
\* query, display, prompt, delete or prune is made.
C6_MissingMainAborts ==
    \A k \in 1..Len(calls) :
        (calls[k].op = "branch -r" /\ calls[k].res = "main absent") =>
            /\ k = Len(calls)
            /\ k > 1
            /\ calls[k - 1] = Call("fetch --prune", ORIGIN, "ok")
            /\ pc = "exited"
            /\ exitCode = "1"
            /\ ~Called("branch -r --merged")
            /\ ~Called("log")
            /\ ~Called("prompt")
            /\ ~Called("push --delete")
            /\ ~Called("remote prune")
            /\ ~displayCalled
            /\ branches = <<>>

\* the remote listing came back without origin/<mainBranch>
C6_Witness ==
    \E k \in 1..Len(calls) :
        calls[k].op = "branch -r" /\ calls[k].res = "main absent"

\* C7: a date that cannot be parsed, the sentinel "unknown" of a failed
\* lookup included, is displayed with the relative date "unknown".
C7_UnparseableIsUnknown ==
    \A k \in 1..Len(displayed) :
        displayed[k].date = "unknown" => displayed[k].relativeDate = "unknown"

\* C8: for a parseable timestamp d whole days before now, the relative date
\* is "today" for d = 0, "yesterday" for d = 1, "d days ago" for 2..6,
\* weeks for 7..29, months for 30..364, years from 365 on, and nothing else.
C8_RelativeDateClasses ==
    (relativeDate # "" /\ ~NewDate(dateString).nan) =>
        LET d == (now - NewDate(dateString).v) \div DaySeconds
        IN  \/ d = 0 /\ relativeDate = "today"
            \/ d = 1 /\ relativeDate = "yesterday"
            \/ d \in 2..6 /\ relativeDate = ToString(d) \o " days ago"
            \/ d \in 7..29 /\ relativeDate = ToString(d \div 7) \o " weeks ago"
            \/ d \in 30..364 /\ relativeDate = ToString(d \div 30) \o " months ago"
            \/ d >= 365 /\ relativeDate = ToString(d \div 365) \o " years ago"

\* C9: when the merged query yields no candidate the run exits with code 0
\* without display, lookup, prompt, delete or prune, whatever dryRun and
\* force are.
C9_EmptyResult ==
    (MergedComputed /\ branches = <<>>) =>
        /\ pc \in {"checkEmpty", "exited"}
        /\ pc = "exited" => exitCode = "0"
        /\ ~displayCalled
        /\ displayed = <<>>
        /\ ~Called("log")
        /\ ~Called("prompt")
        /\ ~Called("push --delete")
        /\ ~Called("remote prune")

\* a forced, non-dry run whose merged query yielded no candidate has ended
C9_Witness ==
    /\ MergedComputed
    /\ branches = <<>>
    /\ force
    /\ ~dryRun
    /\ pc = "exited"

\* the branch a ref of the remote names: the ref without its "origin/" prefix
BranchOf(ref) == SubSeq(ref, Len(ORIGIN) + 1, Len(ref))

\* the refs of a listing that are no symbolic reference and name neither a
\* protected branch, as branch names, in listing order
UnprotectedBranches(all) ==
    LET refs == SelectSeq(all, LAMBDA ref : ~Includes(ref, ARROW))
        names == [k \in 1..Len(refs) |-> BranchOf(refs[k])]
    IN  SelectSeq(names, LAMBDA name : name \notin ProtectedNames)

\* C10: the list getMergedBranches returns is the listing without its
\* symbolic references, each ref without the remote prefix, minus the main
\* branch, HEAD and (while keepDevelop is true) develop: every other branch
\* once and in listing order.
C10_ExactCandidates ==
    pc = "checkEmpty" => branches = UnprotectedBranches(result)

====
